---- MODULE Spec2Model ----
(***************************************************************************)
(* Booking availability and lifecycle of the staycation backend.           *)
(*                                                                         *)
(* The durable state is the bookings collection and the properties         *)
(* collection of the document store.  Every request handler is one action: *)
(* it reads the store, validates, writes at most one document and answers  *)
(* with an HTTP status and a message, which `resp` records for the last    *)
(* request answered.                                                       *)
(*                                                                         *)
(* Time is counted in hours since an arbitrary midnight; the handlers work *)
(* in milliseconds and divide by 1000 * 3600 (hours) or 1000 * 60 * 60 *   *)
(* 24 (days), so whole hours lose nothing the handlers distinguish.        *)
(*                                                                         *)
(* booking.save() is modelled as: schema validation of the paths the       *)
(* handlers assign (the status enum), the two pre("save") hooks of         *)
(* models/Booking.js, then the write.  A failed save writes nothing.       *)
(***************************************************************************)
EXTENDS Integers, Sequences, FiniteSets, TLC

\* ---------------------------------------------------------------- bounds
MaxBookings == 2
MaxDay == 2
MaxTicks == 1
MaxProbe == 4

\* ------------------------------------------------------ program constants
HoursPerDay == 24
CancelLeadHours == 24

\* ------------------------------------------------------------- universes
Guests == {"u1", "u2"}
Actors == Guests \cup {"admin"}
Creators == {"u1"}
PropertyIds == {"p1", "p2"}
MissingProperty == "p0"
BookingIds == 1..MaxBookings
TickHours == HoursPerDay
DateChoices == {d * HoursPerDay : d \in 0..MaxDay}
IntentStatuses == {"succeeded", "requires_payment_method"}

\* What a value that is no number stands for: undefined, NaN, an object.
NotANumber == -1

\* The nightly price a property is listed with.
InitialPrice(p) == IF p = "p1" THEN 100 ELSE 150

\* price.amount values a property update may carry (min 0).
PriceChoices == {0, 100, 200}

\* The guests value of a request body: a number, or an object of counts.
GuestsNumber(n) ==
  [kind |-> "number", adults |-> n, children |-> 0, infants |-> 0]

GuestsObject(adults, children, infants) ==
  [kind |-> "object", adults |-> adults, children |-> children, infants |-> infants]

DefaultGuests == GuestsObject(1, 0, 0)

GuestsChoices ==
  {GuestsNumber(n) : n \in 1..2}
    \cup {GuestsObject(ad, ch, inf) : ad \in 0..2, ch \in 0..1, inf \in 0..1}

\* An unset user reference, an absent reason, the reasons a cancel request may
\* carry and the reason cancelBooking falls back to.
NoActor == "none"
NoReason == ""
ReasonChoices == {NoReason, "change of plans"}
DefaultReason == "Cancelled by user"

\* The property whose price changes.
PricedProperty == "p1"

\* Request dates and clock readings that are not all midnights.
HourChoices == {0, 12, 36}
ClockChoices == {0, 18, 30}

Role(a) == IF a = "admin" THEN "admin" ELSE "user"

PropertyOwner(p) == IF p = "p1" THEN "u1" ELSE "admin"

StatusEnum ==
  {"pending", "confirmed", "checked_in", "checked_out", "cancelled", "completed"}

VARIABLES bookings, properties, now, resp, probe, inflight

vars == <<bookings, properties, now, resp, probe, inflight>>

\* -------------------------------------------------------------- helpers
NoData == <<>>

Response(status, message) ==
  [status |-> status, message |-> message, data |-> NoData]

Stored == DOMAIN bookings

\* The current instant taken for today: a checkIn earlier in the day would be
\* past.
TodayIsNow == now

\* today.setHours(0, 0, 0, 0)
Today == now - (now % HoursPerDay)

\* The date condition with its first clause closed at the existing checkOut
\* ($gte in place of $gt): a stay ending on the requested checkIn would conflict.
DateConflictInclusive(eIn, eOut, rIn, rOut) ==
  \/ (eIn <= rIn /\ eOut >= rIn)
  \/ (eIn < rOut /\ eOut >= rOut)
  \/ (eIn >= rIn /\ eOut <= rOut)

\* The date condition reduced to its first clause: an existing stay that starts
\* inside the requested range would not conflict.
DateConflictFirstClause(eIn, eOut, rIn, rOut) ==
  eIn <= rIn /\ eOut > rIn

\* The three-clause date condition of the availability queries.
DateConflict(eIn, eOut, rIn, rOut) ==
  \/ (eIn <= rIn /\ eOut > rIn)
  \/ (eIn < rOut /\ eOut >= rOut)
  \/ (eIn >= rIn /\ eOut <= rOut)

\* The availability query without its status filter: bookings of every status
\* would block.
ConflictingBookingsAnyStatus(p, rIn, rOut) ==
  {b \in DOMAIN bookings :
     /\ bookings[b].property = p
     /\ DateConflict(bookings[b].checkIn, bookings[b].checkOut, rIn, rOut)}

\* The availability query with pending added to its status filter: a pending
\* booking would block.
ConflictingBookingsPendingBlocks(p, rIn, rOut) ==
  {b \in DOMAIN bookings :
     /\ bookings[b].property = p
     /\ bookings[b].status \in {"pending", "confirmed", "checked_in"}
     /\ DateConflict(bookings[b].checkIn, bookings[b].checkOut, rIn, rOut)}

\* The documents matched by the availability query for (p, rIn, rOut).
ConflictingBookings(p, rIn, rOut) ==
  {b \in Stored :
     /\ bookings[b].property = p
     /\ bookings[b].status \in {"confirmed", "checked_in"}
     /\ DateConflict(bookings[b].checkIn, bookings[b].checkOut, rIn, rOut)}

\* Schema validation without the enum of the status path: any status string
\* would be saved.
ValidatesAnyStatus(doc) ==
  /\ doc.guests.adults # NotANumber /\ doc.guests.adults >= 1
  /\ doc.guests.children >= 0 /\ doc.guests.infants >= 0
  /\ doc.basePrice # NotANumber /\ doc.totalPrice # NotANumber

\* Schema validation run by save(): the status path must be in its enum, the
\* guest counts numbers within their minimums, the prices numbers.
Validates(doc) ==
  /\ doc.status \in StatusEnum
  /\ doc.guests.adults # NotANumber /\ doc.guests.adults >= 1
  /\ doc.guests.children >= 0 /\ doc.guests.infants >= 0
  /\ doc.basePrice # NotANumber /\ doc.totalPrice # NotANumber

\* The pre("save") hook that rejects checkOut <= checkIn.
CheckoutAfterCheckin(doc) == ~(doc.checkOut <= doc.checkIn)

SaveSucceeds(doc) == Validates(doc) /\ CheckoutAfterCheckin(doc)

\* The day count rounded down: a started day would not count as a night.
NightsFloor(checkIn, checkOut) ==
  LET diff == IF checkOut >= checkIn THEN checkOut - checkIn ELSE checkIn - checkOut
  IN  diff \div HoursPerDay

\* Math.ceil((checkOut - checkIn) / (1000 * 60 * 60 * 24))
Nights(checkIn, checkOut) ==
  LET diff == IF checkOut >= checkIn THEN checkOut - checkIn ELSE checkIn - checkOut
  IN  (diff + HoursPerDay - 1) \div HoursPerDay

\* Arithmetic on values that may be no number.
Times(n, x) == IF x = NotANumber THEN NotANumber ELSE n * x

Plus(x, y) == IF x = NotANumber \/ y = NotANumber THEN NotANumber ELSE x + y

\* The nightly price taken as the last fallback of the price expression.
PricePerNightFallback(p) == 0

\* propertyData.price.amount || propertyData.price || 0: an amount of 0 falls
\* through to the price object, which is no number.
PricePerNight(p) ==
  IF properties[p].price # 0 THEN properties[p].price ELSE NotANumber

\* The guests path of a new document: an object sets the counts, a primitive
\* sets nothing and leaves adults undefined beside the defaults.
CastGuests(guests) ==
  IF guests.kind = "object"
    THEN [adults |-> guests.adults, children |-> guests.children,
          infants |-> guests.infants]
    ELSE [adults |-> NotANumber, children |-> 0, infants |-> 0]

\* new Booking({...}) of createBooking for a request body with this guests value.
NewBookingGuests(a, p, checkIn, checkOut, guests) ==
  [user |-> a, property |-> p, checkIn |-> checkIn, checkOut |-> checkOut,
   guests |-> CastGuests(guests), totalGuests |-> NotANumber,
   nights |-> Nights(checkIn, checkOut),
   basePrice |-> PricePerNight(p),
   totalPrice |-> Times(Nights(checkIn, checkOut), PricePerNight(p)),
   status |-> "pending", payment |-> "pending",
   cancelled |-> FALSE, cancelledAt |-> NotANumber, cancelledBy |-> NoActor,
   reason |-> NoReason, confirmationSent |-> FALSE]

NewBooking(a, p, checkIn, checkOut) ==
  NewBookingGuests(a, p, checkIn, checkOut, DefaultGuests)

\* The hook counting infants into totalGuests.
PreSaveCountsInfants(doc) ==
  [doc EXCEPT !.totalGuests = Plus(Plus(doc.guests.adults, doc.guests.children),
                                   doc.guests.infants),
              !.nights = Nights(doc.checkIn, doc.checkOut)]

\* The hook pricing the booking again from the property's current price.
PreSaveReprices(doc) ==
  [doc EXCEPT !.totalGuests = Plus(doc.guests.adults, doc.guests.children),
              !.nights = Nights(doc.checkIn, doc.checkOut),
              !.basePrice = PricePerNight(doc.property),
              !.totalPrice = Times(Nights(doc.checkIn, doc.checkOut),
                                   PricePerNight(doc.property))]

\* The pre("save") hook that derives totalGuests and nights.
PreSave(doc) ==
  [doc EXCEPT !.totalGuests = Plus(doc.guests.adults, doc.guests.children),
              !.nights = Nights(doc.checkIn, doc.checkOut)]

\* No date condition under evaluation.
NoProbe == [eIn |-> 0, eOut |-> 0, rIn |-> 0, rOut |-> 0, match |-> "none"]

\* ----------------------------------------------------------------- Init
Init ==
  /\ bookings = <<>>
  /\ properties = [p \in PropertyIds |->
                     [isAvailable |-> TRUE, price |-> InitialPrice(p)]]
  /\ now = 0
  /\ resp = Response(0, "")
  /\ probe = NoProbe
  /\ inflight = <<>>

\* -------------------------------------------------------------- actions
\* The wall clock advances.
Tick ==
  /\ now + TickHours <= MaxTicks * TickHours
  /\ now' = now + TickHours
  /\ UNCHANGED <<bookings, properties, resp, probe, inflight>>

\* POST /api/bookings
CreateBookingGuestsResult(a, p, checkIn, checkOut, guests) ==
  IF p \notin PropertyIds
    THEN Response(404, "Property not found")
  ELSE IF checkIn < Today
    THEN Response(400,
                  "Check-in date cannot be in the past")
  ELSE IF checkOut <= checkIn
    THEN Response(400,
                  "Check-out date must be after check-in date")
  ELSE IF ConflictingBookings(p, checkIn, checkOut) # {}
    THEN Response(400,
                  "Property is not available for selected dates")
  ELSE IF ~SaveSucceeds(NewBookingGuests(a, p, checkIn, checkOut, guests))
    THEN Response(500, "Server error")
  ELSE Response(201,
                "Booking created successfully")

\* What createBooking writes to the bookings collection.
CreateBookingGuestsWrite(a, p, checkIn, checkOut, guests) ==
  IF CreateBookingGuestsResult(a, p, checkIn, checkOut, guests).status = 201
    THEN Append(bookings,
                PreSave(NewBookingGuests(a, p, checkIn, checkOut, guests)))
    ELSE bookings

CreateBookingGuests(a, p, checkIn, checkOut, guests) ==
  /\ Len(bookings) < MaxBookings
  /\ resp' = CreateBookingGuestsResult(a, p, checkIn, checkOut, guests)
  /\ bookings' = CreateBookingGuestsWrite(a, p, checkIn, checkOut, guests)
  /\ UNCHANGED <<properties, now, probe, inflight>>

\* createBooking for a request body whose guests value is one adult.
CreateBookingResult(a, p, checkIn, checkOut) ==
  CreateBookingGuestsResult(a, p, checkIn, checkOut, DefaultGuests)

\* createBooking saving the booking before its date and availability tests: a
\* refused request would leave a record.
CreateBookingWriteBeforeChecks(a, p, checkIn, checkOut) ==
  IF p \in PropertyIds
    THEN Append(bookings, PreSave(NewBooking(a, p, checkIn, checkOut)))
    ELSE bookings

\* What createBooking writes to the bookings collection.
CreateBookingWrite(a, p, checkIn, checkOut) ==
  CreateBookingGuestsWrite(a, p, checkIn, checkOut, DefaultGuests)

CreateBooking(a, p, checkIn, checkOut) ==
  /\ Len(bookings) < MaxBookings
  /\ resp' = CreateBookingResult(a, p, checkIn, checkOut)
  /\ bookings' = CreateBookingWrite(a, p, checkIn, checkOut)
  /\ UNCHANGED <<properties, now, probe, inflight>>

\* Every stored booking visible to every caller.
VisibleToAnyone(a, b) == b \in Stored

\* Booking.findOne({_id, user}) for a regular user, Booking.findById for an admin
\* (the repository variant loads by id and then compares the owner: same answer).
VisibleTo(a, b) ==
  /\ b \in Stored
  /\ (Role(a) = "admin" \/ bookings[b].user = a)

\* checkInDate.getTime() - now.getTime(), in hours
HoursDiff(b) == bookings[b].checkIn - now

\* hoursDiff < 24 && req.user.role !== "admin"
CancelTooLate(a, b) == HoursDiff(b) < CancelLeadHours /\ Role(a) # "admin"

\* The write of a handler that loaded booking b and saves it as doc.
SaveBooking(b, doc) ==
  IF SaveSucceeds(doc) THEN [bookings EXCEPT ![b] = PreSave(doc)] ELSE bookings

\* booking.status = "cancelled"; booking.cancellation = {cancelledAt: new Date(),
\* reason: req.body.reason || "Cancelled by user"}; cancelledBy is not assigned.
CancelledDocReason(b, reason) ==
  [bookings[b] EXCEPT !.status = "cancelled", !.cancelled = TRUE,
                      !.cancelledAt = now,
                      !.cancelledBy = NoActor,
                      !.reason = IF reason # NoReason THEN reason ELSE DefaultReason]

\* The cancelled document for a request body without a reason.
CancelledDoc(b) == CancelledDocReason(b, NoReason)

\* cancelBooking without its "already cancelled" test: a repeated cancel would
\* be accepted.
CancelBookingResultRepeatable(a, b) ==
  IF ~VisibleTo(a, b)
    THEN Response(404, "Booking not found")
  ELSE IF bookings[b].status = "completed"
    THEN Response(400, "Cannot cancel completed booking")
  ELSE IF CancelTooLate(a, b)
    THEN Response(400,
                  "Cancellation not allowed within 24 hours of check-in")
  ELSE IF ~SaveSucceeds(CancelledDoc(b)) THEN Response(500, "Server error")
  ELSE Response(200, "Booking cancelled successfully")

\* The status filter of GET /api/bookings: a status, or none.
NoFilter == "any"

StatusFilters == StatusEnum \cup {NoFilter}

\* The documents Booking.find(query) matches for caller a and the status filter.
MatchesQuery(a, filter, b) ==
  /\ (Role(a) # "admin" => bookings[b].user = a)
  /\ (filter # NoFilter => bookings[b].status = filter)

\* The matching documents, newest first (sort createdAt -1); the default limit
\* of 10 holds every stored booking.
RECURSIVE NewestFirst(_, _, _)
NewestFirst(a, filter, n) ==
  IF n = 0 THEN <<>>
  ELSE IF MatchesQuery(a, filter, n)
    THEN <<bookings[n]>> \o NewestFirst(a, filter, n - 1)
  ELSE NewestFirst(a, filter, n - 1)

\* GET /api/bookings
GetBookingsResult(a, filter) ==
  [Response(200, "bookings")
     EXCEPT !.data = NewestFirst(a, filter, Len(bookings))]

GetBookings(a, filter) ==
  /\ resp' = GetBookingsResult(a, filter)
  /\ UNCHANGED <<bookings, properties, now, probe, inflight>>

\* GET /api/bookings/:id
GetBookingByIdResult(a, b) ==
  IF ~VisibleTo(a, b)
    THEN Response(404, "Booking not found")
  ELSE [Response(200, "booking") EXCEPT !.data = bookings[b]]

GetBookingById(a, b) ==
  /\ resp' = GetBookingByIdResult(a, b)
  /\ UNCHANGED <<bookings, properties, now, probe, inflight>>

\* PUT /api/bookings/:id/cancel
CancelBookingResult(a, b) ==
  IF ~VisibleTo(a, b)
    THEN Response(404, "Booking not found")
  ELSE IF bookings[b].status = "cancelled"
    THEN Response(400, "Booking is already cancelled")
  ELSE IF bookings[b].status = "completed"
    THEN Response(400, "Cannot cancel completed booking")
  ELSE IF CancelTooLate(a, b)
    THEN Response(400,
                  "Cancellation not allowed within 24 hours of check-in")
  ELSE IF ~SaveSucceeds(CancelledDoc(b)) THEN Response(500, "Server error")
  ELSE Response(200, "Booking cancelled successfully")

\* What cancelBooking writes to the bookings collection.
CancelBookingReasonWrite(a, b, reason) ==
  IF CancelBookingResult(a, b).status = 200
    THEN SaveBooking(b, CancelledDocReason(b, reason))
    ELSE bookings

\* cancelBooking with a request body that carries this reason.
CancelBookingReason(a, b, reason) ==
  /\ resp' = CancelBookingResult(a, b)
  /\ bookings' = CancelBookingReasonWrite(a, b, reason)
  /\ UNCHANGED <<properties, now, probe, inflight>>

\* What cancelBooking writes for a request body without a reason.
CancelBookingWrite(a, b) == CancelBookingReasonWrite(a, b, NoReason)

CancelBooking(a, b) ==
  /\ resp' = CancelBookingResult(a, b)
  /\ bookings' = CancelBookingWrite(a, b)
  /\ UNCHANGED <<properties, now, probe, inflight>>

\* The admin transitions without their test of the current status.
TransitionResultAnyStatus(a, b, from, refused, doc, done) ==
  IF Role(a) # "admin" THEN Response(403, "Access denied")
  ELSE IF b \notin Stored THEN Response(404, "Booking not found")
  ELSE IF ~SaveSucceeds(doc) THEN Response(500, "Server error")
  ELSE Response(200, done)

\* The shape shared by confirmBooking, checkInBooking and checkOutBooking:
\* admin only, the booking must exist, its status must be `from`.
TransitionResult(a, b, from, refused, doc, done) ==
  IF Role(a) # "admin" THEN Response(403, "Access denied")
  ELSE IF b \notin Stored THEN Response(404, "Booking not found")
  ELSE IF bookings[b].status # from THEN Response(400, refused)
  ELSE IF ~SaveSucceeds(doc) THEN Response(500, "Server error")
  ELSE Response(200, done)

\* PUT /api/bookings/:id/confirm
ConfirmedDoc(b) ==
  [bookings[b] EXCEPT !.status = "confirmed",
                  !.payment = "paid", !.confirmationSent = TRUE]

ConfirmBookingResult(a, b) ==
  TransitionResult(a, b, "pending",
                   "Only pending bookings can be confirmed",
                   ConfirmedDoc(b), "Booking confirmed successfully")

\* What confirmBooking writes to the bookings collection.
ConfirmBookingWrite(a, b) ==
  IF ConfirmBookingResult(a, b).status = 200
    THEN SaveBooking(b, ConfirmedDoc(b))
    ELSE bookings

ConfirmBooking(a, b) ==
  /\ resp' = ConfirmBookingResult(a, b)
  /\ bookings' = ConfirmBookingWrite(a, b)
  /\ UNCHANGED <<properties, now, probe, inflight>>

\* PUT /api/bookings/:id/checkin
CheckedInDoc(b) ==
  [bookings[b] EXCEPT !.status = "checked_in"]

CheckInBookingResult(a, b) ==
  TransitionResult(a, b, "confirmed",
                   "Only confirmed bookings can be checked in",
                   CheckedInDoc(b), "Check-in successful")

\* What checkInBooking writes to the bookings collection.
CheckInBookingWrite(a, b) ==
  IF CheckInBookingResult(a, b).status = 200
    THEN SaveBooking(b, CheckedInDoc(b))
    ELSE bookings

CheckInBooking(a, b) ==
  /\ resp' = CheckInBookingResult(a, b)
  /\ bookings' = CheckInBookingWrite(a, b)
  /\ UNCHANGED <<properties, now, probe, inflight>>

\* PUT /api/bookings/:id/checkout
CheckedOutDoc(b) ==
  [bookings[b] EXCEPT !.status = "completed"]

CheckOutBookingResult(a, b) ==
  TransitionResult(a, b, "checked_in",
                   "Only checked-in bookings can be checked out",
                   CheckedOutDoc(b), "Check-out successful")

\* What checkOutBooking writes to the bookings collection.
CheckOutBookingWrite(a, b) ==
  IF CheckOutBookingResult(a, b).status = 200
    THEN SaveBooking(b, CheckedOutDoc(b))
    ELSE bookings

CheckOutBooking(a, b) ==
  /\ resp' = CheckOutBookingResult(a, b)
  /\ bookings' = CheckOutBookingWrite(a, b)
  /\ UNCHANGED <<properties, now, probe, inflight>>

\* PUT /api/bookings/:id/confirm as routes/bookings.js defines it inline:
\* booking.status = "confirmed"; confirmedAt is not a path of the schema.
RouteConfirmedDoc(b) == [bookings[b] EXCEPT !.status = "confirmed"]

RouteConfirmResult(a, b) ==
  TransitionResult(a, b, "pending",
                   "Only pending bookings can be confirmed",
                   RouteConfirmedDoc(b), "Booking confirmed successfully")

\* What the inline confirm writes to the bookings collection.
RouteConfirmWrite(a, b) ==
  IF RouteConfirmResult(a, b).status = 200
    THEN SaveBooking(b, RouteConfirmedDoc(b))
    ELSE bookings

RouteConfirm(a, b) ==
  /\ resp' = RouteConfirmResult(a, b)
  /\ bookings' = RouteConfirmWrite(a, b)
  /\ UNCHANGED <<properties, now, probe, inflight>>

\* The payment update confirming the booking as well.
PaidDocConfirms(b) ==
  [bookings[b] EXCEPT !.payment = "paid", !.status = "confirmed"]

\* POST /api/bookings/:id/payment
\* booking.payment = {...booking.payment, method, transactionId, status: "paid", paidAt}
PaidDoc(b) == [bookings[b] EXCEPT !.payment = "paid"]

UpdatePaymentResult(a, b) ==
  IF ~VisibleTo(a, b)
    THEN Response(404, "Booking not found")
  ELSE IF ~SaveSucceeds(PaidDoc(b)) THEN Response(500, "Server error")
  ELSE Response(200, "Payment information updated successfully")

\* What updatePayment writes to the bookings collection.
UpdatePaymentWrite(a, b) ==
  IF UpdatePaymentResult(a, b).status = 200
    THEN SaveBooking(b, PaidDoc(b))
    ELSE bookings

UpdatePayment(a, b) ==
  /\ resp' = UpdatePaymentResult(a, b)
  /\ bookings' = UpdatePaymentWrite(a, b)
  /\ UNCHANGED <<properties, now, probe, inflight>>

\* POST /api/payments/confirm-payment.  intentStatus is what Stripe answers for
\* the payment intent the caller names.  paymentInfo and confirmedAt are not paths
\* of the booking schema, so save() persists the status alone.
\* booking.status = "confirmed" with no look at the status it replaces
PaymentConfirmedDoc(b) == [bookings[b] EXCEPT !.status = "confirmed"]

\* booking.status = "payment_failed"
PaymentFailedDoc(b) == [bookings[b] EXCEPT !.status = "payment_failed"]

ConfirmPaymentResult(a, b, intentStatus) ==
  IF intentStatus # "succeeded"
    THEN Response(400, "Payment not successful")
  ELSE IF ~(b \in Stored /\ bookings[b].user = a)
    THEN Response(404, "Booking not found")
  ELSE IF ~SaveSucceeds(PaymentConfirmedDoc(b))
    THEN Response(500, "Payment confirmation failed")
  ELSE Response(200, "Payment confirmed successfully")

\* What confirmPayment writes to the bookings collection.
ConfirmPaymentWrite(a, b, intentStatus) ==
  IF ConfirmPaymentResult(a, b, intentStatus).status = 200
    THEN SaveBooking(b, PaymentConfirmedDoc(b))
    ELSE bookings

ConfirmPayment(a, b, intentStatus) ==
  /\ resp' = ConfirmPaymentResult(a, b, intentStatus)
  /\ bookings' = ConfirmPaymentWrite(a, b, intentStatus)
  /\ UNCHANGED <<properties, now, probe, inflight>>

\* POST /api/payments/webhook, event payment_intent.succeeded whose metadata
\* names booking b.  The handler always answers {received: true}.
WebhookSucceeded(b) ==
  /\ resp' = Response(200, "received")
  /\ bookings' = IF b \in Stored /\ bookings[b].status = "pending"
                   THEN SaveBooking(b, PaymentConfirmedDoc(b))
                   ELSE bookings
  /\ UNCHANGED <<properties, now, probe, inflight>>

\* POST /api/payments/webhook, event payment_intent.payment_failed: the handler
\* assigns a status outside the schema's enum, save() throws and the handler
\* logs the error.
WebhookFailed(b) ==
  /\ resp' = Response(200, "received")
  /\ bookings' = IF b \in Stored
                   THEN SaveBooking(b, PaymentFailedDoc(b))
                   ELSE bookings
  /\ UNCHANGED <<properties, now, probe, inflight>>

\* POST /api/payments/refund.  paymentInfo is not a path of the booking schema,
\* so a loaded booking never has one and the handler stops before Stripe.
RefundResult(a, b) ==
  IF Role(a) # "admin" THEN Response(403, "Access denied")
  ELSE IF b \notin Stored THEN Response(404, "Booking not found")
  ELSE Response(400, "No payment found for this booking")

Refund(a, b) ==
  /\ resp' = RefundResult(a, b)
  /\ UNCHANGED <<bookings, properties, now, probe, inflight>>

\* PUT /api/properties/:id with a body that sets availability.isAvailable.
UpdatePropertyResult(a, p) ==
  IF p \notin PropertyIds
    THEN Response(404, "Property not found")
  ELSE IF PropertyOwner(p) # a /\ Role(a) # "admin"
    THEN Response(401,
                  "Not authorized to update this property")
  ELSE Response(200,
                "Property updated successfully")

UpdateProperty(a, p, flag) ==
  /\ resp' = UpdatePropertyResult(a, p)
  /\ properties' = IF resp'.status = 200
                     THEN [properties EXCEPT ![p].isAvailable = flag]
                     ELSE properties
  /\ UNCHANGED <<bookings, now, probe, inflight>>

\* PUT /api/properties/:id with a body that sets price.amount.
UpdatePropertyPrice(a, p, amount) ==
  /\ resp' = UpdatePropertyResult(a, p)
  /\ properties' = IF resp'.status = 200
                     THEN [properties EXCEPT ![p].price = amount]
                     ELSE properties
  /\ UNCHANGED <<bookings, now, probe, inflight>>

\* GET /api/properties/:id/availability
CheckAvailabilityResult(p, rIn, rOut, datesGiven) ==
  IF ~datesGiven
    THEN Response(400,
                  "Check-in and check-out dates are required")
  ELSE IF p \notin PropertyIds
    THEN Response(404, "Property not found")
  ELSE LET conflicting == ConflictingBookings(p, rIn, rOut)
       IN  [Response(200, "success")
              EXCEPT !.data = [isAvailable |-> (Cardinality(conflicting) = 0
                                                /\ properties[p].isAvailable),
                               conflictingBookings |-> Cardinality(conflicting)]]

\* The availability check storing its answer in the property: a property with
\* conflicting bookings would be switched off.
CheckAvailabilityMarksProperty(p, rIn, rOut, datesGiven) ==
  IF datesGiven /\ p \in PropertyIds /\ ConflictingBookings(p, rIn, rOut) # {}
    THEN [properties EXCEPT ![p].isAvailable = FALSE]
    ELSE properties

\* What the availability check leaves in the properties collection: it calls
\* Property.findById and Booking.find and saves nothing.
CheckAvailabilityProperties(p, rIn, rOut, datesGiven) == properties

CheckAvailability(p, rIn, rOut, datesGiven) ==
  /\ resp' = CheckAvailabilityResult(p, rIn, rOut, datesGiven)
  /\ properties' = CheckAvailabilityProperties(p, rIn, rOut, datesGiven)
  /\ UNCHANGED <<bookings, now, probe, inflight>>

Next ==
  \/ Tick
  \/ \E a \in Creators, p \in PropertyIds \cup {MissingProperty},
        checkIn \in DateChoices, checkOut \in DateChoices :
       CreateBooking(a, p, checkIn, checkOut)
  \/ \E a \in Actors, b \in BookingIds : CancelBooking(a, b)
  \/ \E a \in Actors, b \in BookingIds : ConfirmBooking(a, b)
  \/ \E a \in Actors, b \in BookingIds : CheckInBooking(a, b)
  \/ \E a \in Actors, b \in BookingIds : CheckOutBooking(a, b)
  \/ \E a \in Actors, b \in BookingIds : UpdatePayment(a, b)
  \/ \E a \in Actors, b \in BookingIds, intentStatus \in IntentStatuses :
       ConfirmPayment(a, b, intentStatus)
  \/ \E b \in BookingIds : WebhookSucceeded(b)
  \/ \E b \in BookingIds : WebhookFailed(b)
  \/ \E a \in Actors, b \in BookingIds : Refund(a, b)

Spec == Init /\ [][Next]_vars

\* The six booking handlers of controllers/bookingController.js and the clock.
NextLifecycle ==
  \/ Tick
  \/ \E a \in Creators, p \in PropertyIds \cup {MissingProperty},
        checkIn \in DateChoices, checkOut \in DateChoices :
       CreateBooking(a, p, checkIn, checkOut)
  \/ \E a \in Actors, b \in BookingIds : CancelBooking(a, b)
  \/ \E a \in Actors, b \in BookingIds : ConfirmBooking(a, b)
  \/ \E a \in Actors, b \in BookingIds : CheckInBooking(a, b)
  \/ \E a \in Actors, b \in BookingIds : CheckOutBooking(a, b)
  \/ \E a \in Actors, b \in BookingIds : UpdatePayment(a, b)

SpecLifecycle == Init /\ [][NextLifecycle]_vars

\* The availability checker beside the handlers that make and unmake active
\* bookings.  No booking handler reads a property's availability flag, so the
\* bookings reached here are bookings Spec reaches.
NextAvailability ==
  \/ \E a \in Creators, p \in PropertyIds \cup {MissingProperty},
        checkIn \in DateChoices, checkOut \in DateChoices :
       CreateBooking(a, p, checkIn, checkOut)
  \/ \E a \in Actors, b \in BookingIds : CancelBooking(a, b)
  \/ \E a \in Actors, b \in BookingIds : ConfirmBooking(a, b)
  \/ \E a \in Actors, b \in BookingIds : CheckInBooking(a, b)
  \/ \E a \in Actors, p \in PropertyIds \cup {MissingProperty}, flag \in BOOLEAN :
       UpdateProperty(a, p, flag)
  \/ \E p \in PropertyIds \cup {MissingProperty},
        rIn \in DateChoices, rOut \in DateChoices, datesGiven \in BOOLEAN :
       CheckAvailability(p, rIn, rOut, datesGiven)

SpecAvailability == Init /\ [][NextAvailability]_vars

\* The date condition as a function of two date ranges: the ranges are drawn
\* at the start and the condition is evaluated on them.
ProbeTimes == 0..MaxProbe

InitDateCondition ==
  /\ bookings = <<>>
  /\ properties = [p \in PropertyIds |->
                     [isAvailable |-> TRUE, price |-> InitialPrice(p)]]
  /\ now = 0
  /\ resp = Response(0, "")
  /\ probe \in [eIn : ProbeTimes, eOut : ProbeTimes, rIn : ProbeTimes,
                 rOut : ProbeTimes, match : {"unknown"}]
  /\ inflight = <<>>

EvaluateDateCondition ==
  /\ probe.match = "unknown"
  /\ probe' = [probe EXCEPT
                 !.match = IF DateConflict(probe.eIn, probe.eOut, probe.rIn, probe.rOut)
                             THEN "yes" ELSE "no"]
  /\ UNCHANGED <<bookings, properties, now, resp, inflight>>

SpecDateCondition == InitDateCondition /\ [][EvaluateDateCondition]_vars

\* The two confirm handlers of the repository, the controller's and the
\* router's inline one, beside creation and cancellation.
NextConfirm ==
  \/ \E a \in Creators, p \in PropertyIds \cup {MissingProperty},
        checkIn \in DateChoices, checkOut \in DateChoices :
       CreateBooking(a, p, checkIn, checkOut)
  \/ \E a \in Actors, b \in BookingIds : CancelBooking(a, b)
  \/ \E a \in Actors, b \in BookingIds : ConfirmBooking(a, b)
  \/ \E a \in Actors, b \in BookingIds : RouteConfirm(a, b)

SpecConfirm == Init /\ [][NextConfirm]_vars

\* Creation over dates that are not all midnights, price changes of the
\* properties and the handlers that save a stored booking again.
NextPricing ==
  \/ \E a \in Creators, p \in PropertyIds,
        checkIn \in HourChoices, checkOut \in HourChoices :
       CreateBooking(a, p, checkIn, checkOut)
  \/ \E a \in Creators, amount \in PriceChoices :
       UpdatePropertyPrice(a, PricedProperty, amount)
  \/ \E a \in Actors, b \in BookingIds : CancelBooking(a, b)
  \/ \E b \in BookingIds : ConfirmBooking("admin", b)
  \/ \E b \in BookingIds : CheckInBooking("admin", b)
  \/ \E b \in BookingIds : CheckOutBooking("admin", b)
  \/ \E a \in Creators, b \in BookingIds : UpdatePayment(a, b)

SpecPricing == Init /\ [][NextPricing]_vars

\* Creation at a clock reading that is no midnight.
InitDates ==
  /\ bookings = <<>>
  /\ properties = [p \in PropertyIds |->
                     [isAvailable |-> TRUE, price |-> InitialPrice(p)]]
  /\ now \in ClockChoices
  /\ resp = Response(0, "")
  /\ probe = NoProbe
  /\ inflight = <<>>

NextDates ==
  \/ \E a \in Creators, p \in PropertyIds \cup {MissingProperty},
        checkIn \in HourChoices, checkOut \in HourChoices :
       CreateBooking(a, p, checkIn, checkOut)
  \/ \E a \in Actors, b \in BookingIds : CancelBooking(a, b)
  \/ \E a \in Actors, b \in BookingIds : ConfirmBooking(a, b)

SpecDates == InitDates /\ [][NextDates]_vars

\* Creation for every guests value of GuestsChoices and the handlers that save
\* a stored booking again.
NextGuests ==
  \/ \E a \in Creators, p \in PropertyIds,
        checkIn \in DateChoices, checkOut \in DateChoices,
        guests \in GuestsChoices :
       CreateBookingGuests(a, p, checkIn, checkOut, guests)
  \/ \E a \in Creators, b \in BookingIds : CancelBooking(a, b)
  \/ \E b \in BookingIds : ConfirmBooking("admin", b)
  \/ \E a \in Creators, b \in BookingIds : UpdatePayment(a, b)

SpecGuests == Init /\ [][NextGuests]_vars

\* Bookings of two guests, read and changed by every caller.
NextIsolation ==
  \/ \E a \in Guests, p \in PropertyIds,
        checkIn \in DateChoices, checkOut \in DateChoices :
       CreateBooking(a, p, checkIn, checkOut)
  \/ \E a \in Actors, b \in BookingIds : CancelBooking(a, b)
  \/ \E a \in Actors, b \in BookingIds : UpdatePayment(a, b)
  \/ \E a \in Actors, filter \in StatusFilters : GetBookings(a, filter)
  \/ \E a \in Actors, b \in BookingIds : GetBookingById(a, b)

SpecIsolation == Init /\ [][NextIsolation]_vars

\* Cancellation with and without a reason, at different clock readings.
NextCancel ==
  \/ Tick
  \/ \E a \in Creators, p \in PropertyIds,
        checkIn \in DateChoices, checkOut \in DateChoices :
       CreateBooking(a, p, checkIn, checkOut)
  \/ \E a \in Actors, b \in BookingIds, reason \in ReasonChoices :
       CancelBookingReason(a, b, reason)
  \/ \E b \in BookingIds : ConfirmBooking("admin", b)

SpecCancel == Init /\ [][NextCancel]_vars

\* ---------------------------------------------------- concurrent requests
\* A handler awaits the database twice: once for its read (findOne, findById,
\* find) and once for booking.save().  Between the two awaits the event loop
\* serves other requests.  inflight holds the requests that have read and
\* validated and whose save or answer is still to come: the document as loaded
\* (snap), the document with the handler's assignments (doc), how many
\* bookings the collection held at the read (seen), and whether save() has
\* been applied.  The schema sets no optimisticConcurrency option.
MaxInflight == 2

TransitionOps == {"cancel", "confirm", "checkIn", "checkOut"}

Request(op, a, b, snap, doc) ==
  [op |-> op, actor |-> a, id |-> b, seen |-> Len(bookings),
   snap |-> snap, doc |-> doc, saved |-> FALSE]

\* The read and the validation of a handler on booking b: a refusal is answered
\* at once, an accepted request goes on to its save.
BeginRequest(op, a, b, answer, doc) ==
  /\ Len(inflight) < MaxInflight
  /\ IF answer.status = 200
       THEN /\ inflight' = Append(inflight, Request(op, a, b, bookings[b], doc))
            /\ UNCHANGED resp
       ELSE /\ resp' = answer
            /\ UNCHANGED inflight
  /\ UNCHANGED <<bookings, properties, now, probe>>

BeginCancelBooking(a, b) ==
  BeginRequest("cancel", a, b, CancelBookingResult(a, b),
               IF b \in Stored THEN CancelledDoc(b) ELSE NoData)

BeginConfirmBooking(a, b) ==
  BeginRequest("confirm", a, b, ConfirmBookingResult(a, b),
               IF b \in Stored THEN ConfirmedDoc(b) ELSE NoData)

BeginCheckInBooking(a, b) ==
  BeginRequest("checkIn", a, b, CheckInBookingResult(a, b),
               IF b \in Stored THEN CheckedInDoc(b) ELSE NoData)

BeginCheckOutBooking(a, b) ==
  BeginRequest("checkOut", a, b, CheckOutBookingResult(a, b),
               IF b \in Stored THEN CheckedOutDoc(b) ELSE NoData)

\* createBooking up to its availability query: the dates are validated and
\* Booking.find has answered.
BeginCreateBooking(a, p, checkIn, checkOut) ==
  /\ Len(inflight) < MaxInflight
  /\ IF CreateBookingResult(a, p, checkIn, checkOut).status = 201
       THEN /\ inflight' = Append(inflight,
                                  Request("create", a, 0,
                                          NewBooking(a, p, checkIn, checkOut),
                                          NewBooking(a, p, checkIn, checkOut)))
            /\ UNCHANGED resp
       ELSE /\ resp' = CreateBookingResult(a, p, checkIn, checkOut)
            /\ UNCHANGED inflight
  /\ UNCHANGED <<bookings, properties, now, probe>>

\* save() of a loaded document sends the paths the handler modified ($set) and
\* leaves every other path of the stored document as it is.
SaveModifiedPaths(cur, snap, doc) ==
  [cur EXCEPT
     !.status = IF doc.status # snap.status THEN doc.status ELSE cur.status,
     !.payment = IF doc.payment # snap.payment THEN doc.payment ELSE cur.payment,
     !.confirmationSent = IF doc.confirmationSent # snap.confirmationSent
                            THEN doc.confirmationSent ELSE cur.confirmationSent,
     !.cancelled = IF doc.cancelled # snap.cancelled
                     THEN doc.cancelled ELSE cur.cancelled,
     !.cancelledAt = IF doc.cancelledAt # snap.cancelledAt
                       THEN doc.cancelledAt ELSE cur.cancelledAt,
     !.cancelledBy = IF doc.cancelledBy # snap.cancelledBy
                       THEN doc.cancelledBy ELSE cur.cancelledBy,
     !.reason = IF doc.reason # snap.reason THEN doc.reason ELSE cur.reason]

\* save() of a new document that first asks again whether the dates are free.
SaveCreatedRechecks(r) ==
  IF \E b \in Stored :
       /\ bookings[b].property = r.doc.property
       /\ r.doc.checkIn < bookings[b].checkOut
       /\ bookings[b].checkIn < r.doc.checkOut
    THEN bookings
    ELSE Append(bookings, PreSave(r.doc))

\* save() of a new document: an insert, whatever the collection holds by now.
SaveCreated(r) == Append(bookings, PreSave(r.doc))

\* save() of a loaded document: an update by _id, whatever the stored status is
\* by now.
SaveLoaded(r) ==
  [bookings EXCEPT ![r.id] = SaveModifiedPaths(bookings[r.id], r.snap, PreSave(r.doc))]

\* The database applies the save of request i.
SaveRequest(i) ==
  /\ i \in DOMAIN inflight
  /\ ~inflight[i].saved
  /\ IF inflight[i].op = "create"
       THEN /\ Len(bookings) < MaxBookings
            /\ bookings' = SaveCreated(inflight[i])
       ELSE bookings' = SaveLoaded(inflight[i])
  /\ inflight' = [inflight EXCEPT ![i].saved = TRUE]
  /\ UNCHANGED <<properties, now, resp, probe>>

\* What a handler answers after its save.
Answer(r) ==
  CASE r.op = "create" -> Response(201, "Booking created successfully")
    [] r.op = "cancel" -> Response(200, "Booking cancelled successfully")
    [] r.op = "confirm" -> Response(200, "Booking confirmed successfully")
    [] r.op = "checkIn" -> Response(200, "Check-in successful")
    [] r.op = "checkOut" -> Response(200, "Check-out successful")

RemoveAt(seq, i) == SubSeq(seq, 1, i - 1) \o SubSeq(seq, i + 1, Len(seq))

\* The handler resumes after its save and answers.
RespondRequest(i) ==
  /\ i \in DOMAIN inflight
  /\ inflight[i].saved
  /\ resp' = Answer(inflight[i])
  /\ inflight' = RemoveAt(inflight, i)
  /\ UNCHANGED <<bookings, properties, now, probe>>

ConcurrentActors == {"u1", "admin"}

ConcurrentProperty == "p1"

\* The booking handlers with their reads and saves interleaved.
NextConcurrent ==
  \/ \E a \in Creators, checkIn \in DateChoices, checkOut \in DateChoices :
       BeginCreateBooking(a, ConcurrentProperty, checkIn, checkOut)
  \/ \E a \in ConcurrentActors, b \in BookingIds : BeginCancelBooking(a, b)
  \/ \E b \in BookingIds : BeginConfirmBooking("admin", b)
  \/ \E b \in BookingIds : BeginCheckInBooking("admin", b)
  \/ \E b \in BookingIds : BeginCheckOutBooking("admin", b)
  \/ \E i \in 1..MaxInflight : SaveRequest(i)
  \/ \E i \in 1..MaxInflight : RespondRequest(i)

SpecConcurrent == Init /\ [][NextConcurrent]_vars


\* ------------------------------------------------------- bulk retention
\* POST /api/bookings/reset keeps the latest 50 bookings.
KeepLatest == 50

Min(x, y) == IF x <= y THEN x ELSE y

\* Booking.find().sort({createdAt: -1}).limit(limit).select("_id"): bookings is
\* held in creation order, so the latest are the last ones.
FindLatest(limit) == {b \in Stored : b > Len(bookings) - limit}

\* Booking.deleteMany({_id: {$nin: ids}}): what stays, in creation order.
RECURSIVE DeleteManyNotIn(_, _)
DeleteManyNotIn(ids, n) ==
  IF n = 0 THEN <<>>
  ELSE IF n \in ids THEN Append(DeleteManyNotIn(ids, n - 1), bookings[n])
  ELSE DeleteManyNotIn(ids, n - 1)

ResetBookingsResult(a) ==
  IF Role(a) # "admin" THEN Response(403, "Access denied")
  ELSE [Response(200, "Data cleanup successful")
          EXCEPT !.data = [deletedCount |->
                             Len(bookings) - Cardinality(FindLatest(KeepLatest))]]

\* The cleanup keeping the earliest bookings instead of the latest.
ResetBookingsWriteEarliest(a) ==
  IF Role(a) = "admin"
    THEN SubSeq(bookings, 1, Min(KeepLatest, Len(bookings)))
    ELSE bookings

\* What resetBookings leaves in the bookings collection.
ResetBookingsWrite(a) ==
  IF ResetBookingsResult(a).status = 200
    THEN DeleteManyNotIn(FindLatest(KeepLatest), Len(bookings))
    ELSE bookings

ResetBookings(a) ==
  /\ resp' = ResetBookingsResult(a)
  /\ bookings' = ResetBookingsWrite(a)
  /\ UNCHANGED <<properties, now, probe, inflight>>

\* Collections of fewer than, exactly and more than KeepLatest bookings.
SeedSizes ==
  {0, 1, KeepLatest - 1, KeepLatest, KeepLatest + 1, KeepLatest + MaxBookings}

SeedStatuses ==
  <<"pending", "confirmed", "checked_in", "completed", "cancelled">>

\* The k-th booking of a collection built up by earlier requests: guests and
\* properties alternate and the statuses rotate from offset o.
SeedBooking(k, o) ==
  LET status == SeedStatuses[((k + o) % Len(SeedStatuses)) + 1]
      doc == PreSave(NewBooking(IF k % 2 = 0 THEN "u1" ELSE "u2",
                                IF k % 4 < 2 THEN "p1" ELSE "p2",
                                HoursPerDay, 2 * HoursPerDay))
  IN  [doc EXCEPT
         !.status = status,
         !.payment = IF status \in {"confirmed", "checked_in", "completed"}
                       THEN "paid" ELSE "pending",
         !.confirmationSent = status \in {"confirmed", "checked_in", "completed"},
         !.cancelled = (status = "cancelled"),
         !.cancelledAt = IF status = "cancelled" THEN 0 ELSE NotANumber,
         !.reason = IF status = "cancelled" THEN DefaultReason ELSE NoReason]

InitReset ==
  /\ properties = [p \in PropertyIds |->
                     [isAvailable |-> TRUE, price |-> InitialPrice(p)]]
  /\ \E n \in SeedSizes, o \in 0..(Len(SeedStatuses) - 1) :
       bookings = [k \in 1..n |-> SeedBooking(k, o)]
  /\ now = 0
  /\ resp = Response(0, "")
  /\ probe = NoProbe
  /\ inflight = <<>>

\* The cleanup beside every handler that writes bookings.
NextReset ==
  \/ \E a \in Actors : ResetBookings(a)
  \/ \E a \in Creators, p \in PropertyIds,
        checkIn \in DateChoices, checkOut \in DateChoices :
       CreateBooking(a, p, checkIn, checkOut)
  \/ \E a \in Actors, b \in BookingIds : CancelBooking(a, b)
  \/ \E b \in BookingIds : ConfirmBooking("admin", b)
  \/ \E b \in BookingIds : CheckInBooking("admin", b)
  \/ \E b \in BookingIds : CheckOutBooking("admin", b)
  \/ \E a \in Creators, b \in BookingIds : UpdatePayment(a, b)
  \/ \E a \in Creators, b \in BookingIds, intentStatus \in IntentStatuses :
       ConfirmPayment(a, b, intentStatus)
  \/ \E b \in BookingIds : WebhookSucceeded(b)
  \/ \E b \in BookingIds : WebhookFailed(b)
  \/ \E a \in Actors, b \in BookingIds : Refund(a, b)

SpecReset == InitReset /\ [][NextReset]_vars

\* ================================================================ claims
HalfOpenOverlap(aIn, aOut, bIn, bOut) == aIn < bOut /\ bIn < aOut

Active(b) == bookings[b].status \in {"confirmed", "checked_in"}

AllStored(status) ==
  /\ Stored # {}
  /\ \A b \in Stored : bookings[b].status = status

\* C1: no two distinct active (confirmed or checked_in) bookings of the same
\* property have overlapping half-open date ranges, in any state the six booking
\* handlers reach.
C1_NoOverlappingActiveBookings ==
  \A b1 \in Stored, b2 \in Stored :
    (b1 # b2 /\ bookings[b1].property = bookings[b2].property
       /\ Active(b1) /\ Active(b2))
    => ~HalfOpenOverlap(bookings[b1].checkIn, bookings[b1].checkOut,
                        bookings[b2].checkIn, bookings[b2].checkOut)

\* C2: in every reachable state, for an admin, confirmBooking on a stored booking
\* that is not pending, checkInBooking on one that is not confirmed and
\* checkOutBooking on one that is not checked_in are answered 400 with the
\* transition's refusal and write nothing: every stored booking stays as it was.
C2_InvalidTransitionRejected ==
  \A b \in Stored :
    /\ bookings[b].status # "pending"
       => (ConfirmBookingResult("admin", b)
             = Response(400, "Only pending bookings can be confirmed")
           /\ ConfirmBookingWrite("admin", b) = bookings)
    /\ bookings[b].status # "confirmed"
       => (CheckInBookingResult("admin", b)
             = Response(400, "Only confirmed bookings can be checked in")
           /\ CheckInBookingWrite("admin", b) = bookings)
    /\ bookings[b].status # "checked_in"
       => (CheckOutBookingResult("admin", b)
             = Response(400, "Only checked-in bookings can be checked out")
           /\ CheckOutBookingWrite("admin", b) = bookings)

\* C2 witness: a confirm was refused while every stored booking is cancelled.
C2_Witness ==
  /\ resp.message = "Only pending bookings can be confirmed"
  /\ AllStored("cancelled")

\* C3: a booking becomes cancelled only from pending or confirmed, and
\* cancelBooking on a checked_in booking is refused and leaves it checked_in.
C3_CancelledOnlyFromPendingOrConfirmed ==
  [][/\ \A b \in Stored :
          (bookings'[b].status = "cancelled" /\ bookings[b].status # "cancelled")
          => bookings[b].status \in {"pending", "confirmed"}
     /\ \A a \in Actors, b \in Stored :
          (CancelBooking(a, b) /\ bookings[b].status = "checked_in")
          => (resp'.status # 200 /\ bookings'[b].status = "checked_in")]_vars

\* C4: once a booking is completed or cancelled its status never changes.
C4_TerminalStatusesStay ==
  [][\A b \in Stored :
       bookings[b].status \in {"completed", "cancelled"}
       => bookings'[b].status = bookings[b].status]_vars

\* C5: in every step in which a booking's status becomes confirmed, its status
\* before the step was pending.
C5_ConfirmedOnlyFromPending ==
  [][\A b \in Stored :
       (bookings'[b].status = "confirmed" /\ bookings[b].status # "confirmed")
       => bookings[b].status = "pending"]_vars

\* A request made by actor a: any handler that authenticates its caller.
RequestBy(a) ==
  \/ \E p \in PropertyIds \cup {MissingProperty},
        checkIn \in DateChoices, checkOut \in DateChoices :
       CreateBooking(a, p, checkIn, checkOut)
  \/ \E b \in BookingIds :
       \/ CancelBooking(a, b)
       \/ ConfirmBooking(a, b)
       \/ CheckInBooking(a, b)
       \/ CheckOutBooking(a, b)
       \/ UpdatePayment(a, b)
       \/ Refund(a, b)
       \/ \E intentStatus \in IntentStatuses : ConfirmPayment(a, b, intentStatus)

\* C6: no request of a non-admin changes a booking's status to confirmed,
\* checked_in or completed; confirmBooking, checkInBooking and checkOutBooking by
\* a non-admin are answered 403 and change no booking.
C6_NonAdminNeverAdvances ==
  [][\A a \in Guests :
       /\ RequestBy(a)
          => \A b \in Stored :
               bookings'[b].status \in {"confirmed", "checked_in", "completed"}
               => bookings'[b].status = bookings[b].status
       /\ \A b \in BookingIds :
            (ConfirmBooking(a, b) \/ CheckInBooking(a, b) \/ CheckOutBooking(a, b))
            => (resp'.status = 403 /\ bookings' = bookings)]_vars

\* C7: cancelBooking by a non-admin owner with 24 hours or less (exactly 24
\* hours included) between the call and checkIn is refused and changes nothing.
C7_OwnerCancelNeedsMoreThan24h ==
  [][\A a \in Guests, b \in Stored :
       (CancelBooking(a, b) /\ bookings[b].user = a
          /\ HoursDiff(b) <= CancelLeadHours)
       => (resp'.status # 200 /\ bookings' = bookings)]_vars

\* C8: in every reachable state, cancelBooking on a completed or cancelled
\* booking fails for every actor and writes nothing, and a cancelBooking that
\* succeeds stores the booking as cancelled - the state in which the next
\* cancelBooking is refused.
C8_CancelNotIdempotent ==
  \A a \in Actors, b \in Stored :
    /\ bookings[b].status \in {"completed", "cancelled"}
       => (CancelBookingResult(a, b).status \in {400, 404}
           /\ CancelBookingWrite(a, b) = bookings)
    /\ (bookings[b].status = "cancelled" /\ VisibleTo(a, b))
       => CancelBookingResult(a, b) = Response(400, "Booking is already cancelled")
    /\ CancelBookingResult(a, b).status = 200
       => CancelBookingWrite(a, b)[b].status = "cancelled"

\* C8 witness: a cancel was refused as a repeat while every stored booking is
\* cancelled.
C8_Witness ==
  /\ resp.message = "Booking is already cancelled"
  /\ AllStored("cancelled")

\* C9: for ranges with eIn < eOut and rIn < rOut the three-clause date condition
\* matches exactly when eIn < rOut and rIn < eOut.
C9_DateConditionIsHalfOpenOverlap ==
  (probe.match # "unknown" /\ probe.eIn < probe.eOut /\ probe.rIn < probe.rOut)
  => (probe.match = "yes"
        <=> HalfOpenOverlap(probe.eIn, probe.eOut, probe.rIn, probe.rOut))

\* C9 witness: an existing range ending where the requested one starts was
\* evaluated and is no conflict.
C9_Witness ==
  /\ probe.match = "no"
  /\ probe.eIn < probe.eOut /\ probe.rIn < probe.rOut
  /\ probe.eOut = probe.rIn

\* The active bookings of p whose range overlaps the half-open range [rIn, rOut).
OverlappingActive(p, rIn, rOut) ==
  {b \in Stored :
     /\ bookings[b].property = p
     /\ Active(b)
     /\ HalfOpenOverlap(bookings[b].checkIn, bookings[b].checkOut, rIn, rOut)}

AvailabilityAnswerIsHalfOpen(p, rIn, rOut) ==
  LET answer == CheckAvailabilityResult(p, rIn, rOut, TRUE)
  IN  /\ answer.status = 200
      /\ answer.data.isAvailable
           = (OverlappingActive(p, rIn, rOut) = {} /\ properties[p].isAvailable)
      /\ answer.data.conflictingBookings
           = Cardinality(OverlappingActive(p, rIn, rOut))

\* C10 as stated: in every reachable state and for every request,
\* checkAvailability answers isAvailable true exactly when no active booking of
\* the property overlaps the half-open range and the property's flag is true,
\* and counts the overlapping active bookings.
C10_AvailabilityAnyRange ==
  \A p \in PropertyIds, rIn \in DateChoices, rOut \in DateChoices :
    AvailabilityAnswerIsHalfOpen(p, rIn, rOut)

\* C10 amended: the same for every request with checkIn < checkOut.
C10_AvailabilityValidRange ==
  \A p \in PropertyIds, rIn \in DateChoices, rOut \in DateChoices :
    rIn < rOut => AvailabilityAnswerIsHalfOpen(p, rIn, rOut)

\* C10 witness: an answer that counts a conflict, given while some property has
\* an active booking and another answer could not be mistaken for it.
C10_Witness ==
  /\ resp.status = 200 /\ resp.message = "success"
  /\ resp.data.conflictingBookings = 1
  /\ ~resp.data.isAvailable
  /\ \E b \in Stored : Active(b)

\* The answer createBooking gives when the availability query matches.
Unavailable == Response(400, "Property is not available for selected dates")

\* The active bookings of property p.
ActiveOf(p) == {b \in Stored : bookings[b].property = p /\ Active(b)}

\* C11: in every reachable state, createBooking for a property whose
\* availability.isAvailable flag is false is not answered 201 and writes nothing,
\* whatever the requested dates.
C11_UnavailableFlagBlocksCreate ==
  \A a \in Creators, p \in PropertyIds,
     checkIn \in DateChoices, checkOut \in DateChoices :
    ~properties[p].isAvailable
    => (CreateBookingResult(a, p, checkIn, checkOut).status # 201
        /\ CreateBookingWrite(a, p, checkIn, checkOut) = bookings)

\* C12: in every reachable state, a createBooking request that no active booking
\* of the same property overlaps is not answered Unavailable, whatever pending or
\* cancelled bookings and bookings of other properties are stored, and
\* checkAvailability counts no more conflicts than the property has active
\* bookings.
C12_OnlyActiveBookingsBlock ==
  \A a \in Creators, p \in PropertyIds,
     checkIn \in DateChoices, checkOut \in DateChoices :
    /\ OverlappingActive(p, checkIn, checkOut) = {}
       => CreateBookingResult(a, p, checkIn, checkOut) # Unavailable
    /\ CheckAvailabilityResult(p, checkIn, checkOut, TRUE).data.conflictingBookings
         <= Cardinality(ActiveOf(p))

\* C12 witness: a booking was just created over the dates of a stored pending or
\* cancelled booking of the same property.
C12_Witness ==
  /\ resp.status = 201
  /\ Len(bookings) = 2
  /\ bookings[1].property = bookings[2].property
  /\ bookings[1].status \in {"pending", "cancelled"}
  /\ HalfOpenOverlap(bookings[1].checkIn, bookings[1].checkOut,
                     bookings[2].checkIn, bookings[2].checkOut)

C15_FailedCreateWritesNothing ==
  \A a \in Creators, p \in PropertyIds \cup {MissingProperty},
     checkIn \in DateChoices, checkOut \in DateChoices :
    (\/ p \notin PropertyIds
     \/ checkIn < Today
     \/ checkOut <= checkIn
     \/ OverlappingActive(p, checkIn, checkOut) # {})
    => (CreateBookingResult(a, p, checkIn, checkOut).status \in {400, 404}
        /\ CreateBookingWrite(a, p, checkIn, checkOut) = bookings)

\* C15 witness: a request was refused as past while a booking is stored.
C15_Witness ==
  /\ resp = Response(400, "Check-in date cannot be in the past")
  /\ Stored # {}

\* What the claim expects of a booking just confirmed.
ConfirmedWithEffects(doc) ==
  /\ doc.status = "confirmed"
  /\ doc.payment = "paid"
  /\ doc.confirmationSent

\* C20: in every reachable state, a confirm that succeeds, through the
\* controller's confirmBooking or the router's inline PUT /:id/confirm, stores the
\* booking with status confirmed, payment status paid and the confirmation-sent
\* time set.
C20_ConfirmSetsPaidAndSent ==
  \A a \in Actors, b \in Stored :
    /\ ConfirmBookingResult(a, b).status = 200
       => ConfirmedWithEffects(ConfirmBookingWrite(a, b)[b])
    /\ RouteConfirmResult(a, b).status = 200
       => ConfirmedWithEffects(RouteConfirmWrite(a, b)[b])

\* The least number of whole days that covers d hours.
CeilDays(d) ==
  CHOOSE n \in 0..d : (n - 1) * HoursPerDay < d /\ d <= n * HoursPerDay

\* C14: in every reachable state, a createBooking that is answered 201 adds
\* exactly one booking and changes no other; the new booking is pending with
\* payment pending, belongs to the caller, has the property's current nightly
\* price as basePrice, the ceiling of (checkOut - checkIn) in days as nights and
\* nights times basePrice as totalPrice.
C14_CreatedBookingFields ==
  \A a \in Guests, p \in PropertyIds,
     checkIn \in HourChoices, checkOut \in HourChoices :
    CreateBookingResult(a, p, checkIn, checkOut).status = 201
    => LET after == CreateBookingWrite(a, p, checkIn, checkOut)
           new == after[Len(after)]
       IN  /\ Len(after) = Len(bookings) + 1
           /\ SubSeq(after, 1, Len(bookings)) = bookings
           /\ new.status = "pending"
           /\ new.payment = "pending"
           /\ new.user = a
           /\ new.basePrice = properties[p].price
           /\ new.nights = CeilDays(checkOut - checkIn)
           /\ new.totalPrice = new.nights * new.basePrice

\* C14 witness: a booking of two nights at 100 a night was just created with a
\* total of 200.
C14_Witness ==
  /\ resp.status = 201
  /\ Len(bookings) >= 1
  /\ LET new == bookings[Len(bookings)]
     IN  /\ new.status = "pending"
         /\ new.nights = 2
         /\ new.basePrice = 100
         /\ new.totalPrice = 200

\* C16: in every reachable state, createBooking refuses a checkIn earlier than
\* today's midnight as past and a checkOut not after checkIn as out of order,
\* writing nothing; every stored booking has checkOut > checkIn; and a checkIn
\* at or after today's midnight but earlier than the current instant is not
\* refused as past.
C16_DateValidation ==
  /\ \A a \in Creators, p \in PropertyIds,
        checkIn \in HourChoices, checkOut \in HourChoices :
       /\ checkIn < now - (now % HoursPerDay)
          => (CreateBookingResult(a, p, checkIn, checkOut)
                = Response(400, "Check-in date cannot be in the past")
              /\ CreateBookingWrite(a, p, checkIn, checkOut) = bookings)
       /\ (checkIn >= now - (now % HoursPerDay) /\ checkOut <= checkIn)
          => (CreateBookingResult(a, p, checkIn, checkOut)
                = Response(400, "Check-out date must be after check-in date")
              /\ CreateBookingWrite(a, p, checkIn, checkOut) = bookings)
       /\ (checkIn >= now - (now % HoursPerDay) /\ checkIn < now)
          => CreateBookingResult(a, p, checkIn, checkOut).message
               # "Check-in date cannot be in the past"
  /\ \A b \in Stored : bookings[b].checkOut > bookings[b].checkIn

\* C16 witness: a booking was just created whose checkIn lies between today's
\* midnight and the current instant.
C16_Witness ==
  /\ resp.status = 201
  /\ \E b \in Stored :
       /\ now - (now % HoursPerDay) < bookings[b].checkIn
       /\ bookings[b].checkIn < now

\* C17: in every reachable state every stored booking's nights is the ceiling of
\* (checkOut - checkIn) in whole days.
C17_NightsIsCeiling ==
  \A b \in Stored :
    bookings[b].nights = CeilDays(bookings[b].checkOut - bookings[b].checkIn)

\* C17 witness: a booking of a day and a half, counted as two nights, has gone
\* through confirm, check-in and check-out.
C17_Witness ==
  \E b \in Stored :
    /\ bookings[b].status = "completed"
    /\ (bookings[b].checkOut - bookings[b].checkIn) % HoursPerDay # 0
    /\ bookings[b].checkOut - bookings[b].checkIn > HoursPerDay
    /\ bookings[b].nights = 2

\* C18: in every reachable state every stored booking's totalGuests is
\* guests.adults + guests.children, whatever guests.infants is.
C18_TotalGuestsIsAdultsPlusChildren ==
  \A b \in Stored :
    bookings[b].totalGuests
      = bookings[b].guests.adults + bookings[b].guests.children

\* C18 witness: a booking with children and an infant was created and saved
\* again by a confirm, and counts adults and children only.
C18_Witness ==
  \E b \in Stored :
    /\ bookings[b].status = "confirmed"
    /\ bookings[b].guests.infants > 0
    /\ bookings[b].guests.children > 0
    /\ bookings[b].totalGuests
         = bookings[b].guests.adults + bookings[b].guests.children

\* C19: no step changes the basePrice or the totalPrice of a stored booking:
\* neither a change of the property's price nor confirm, check-in, check-out,
\* cancel or a payment update.
C19_PricingIsSnapshot ==
  [][\A b \in Stored :
       /\ bookings'[b].basePrice = bookings[b].basePrice
       /\ bookings'[b].totalPrice = bookings[b].totalPrice]_vars

\* C19 witness: the only booking was just confirmed while its property's price
\* is no longer the basePrice it was created with.
C19_Witness ==
  /\ resp.message = "Booking confirmed successfully"
  /\ Len(bookings) = 1
  /\ bookings[1].status = "confirmed"
  /\ bookings[1].basePrice # properties[bookings[1].property].price

\* C21: in every reachable state, for every caller and every stored booking,
\* what updatePayment writes differs from the stored collection at most in that
\* booking's payment: its status and every other field stay, and so does every
\* other booking.
C21_UpdatePaymentKeepsStatus ==
  \A a \in Actors, b \in Stored :
    LET after == UpdatePaymentWrite(a, b)
    IN  /\ after[b].status = bookings[b].status
        /\ after = [bookings EXCEPT ![b].payment = after[b].payment]

\* C21 witness: a payment update just succeeded on the only booking, which is
\* cancelled.
C21_Witness ==
  /\ resp.message = "Payment information updated successfully"
  /\ Len(bookings) = 1
  /\ bookings[1].status = "cancelled"
  /\ bookings[1].payment = "paid"

\* C22: in every reachable state, for a guest a and a stored booking of another
\* user, getBookingById, cancelBooking and updatePayment answer 404 "Booking not
\* found" and write nothing, and getBookings returns, under every status filter,
\* only bookings whose user is a.
C22_OwnershipIsolation ==
  \A a \in Guests :
    /\ \A b \in Stored :
         bookings[b].user # a
         => /\ GetBookingByIdResult(a, b) = Response(404, "Booking not found")
            /\ CancelBookingResult(a, b) = Response(404, "Booking not found")
            /\ CancelBookingWrite(a, b) = bookings
            /\ UpdatePaymentResult(a, b) = Response(404, "Booking not found")
            /\ UpdatePaymentWrite(a, b) = bookings
    /\ \A filter \in StatusFilters :
         LET listed == GetBookingsResult(a, filter).data
         IN  \A i \in DOMAIN listed : listed[i].user = a

\* C22 witness: every booking id is stored, the bookings belong to different
\* users, and the last request was answered "Booking not found".
C22_Witness ==
  /\ resp = Response(404, "Booking not found")
  /\ Len(bookings) = MaxBookings
  /\ bookings[1].user # bookings[2].user

\* C23: in every reachable state a booking with a populated cancellation record
\* (cancelledAt set) has status cancelled.
C23_CancellationOnlyWhenCancelled ==
  \A b \in Stored :
    (bookings[b].cancelled \/ bookings[b].cancelledAt # NotANumber)
    => bookings[b].status = "cancelled"

\* C24: in every reachable state, a cancelBooking that succeeds stores in the
\* booking's cancellation record the time of the call, the caller and the reason:
\* the one supplied, or the default when none is supplied.
C24_CancellationRecord ==
  \A a \in Actors, b \in Stored, reason \in ReasonChoices :
    CancelBookingResult(a, b).status = 200
    => LET doc == CancelBookingReasonWrite(a, b, reason)[b]
       IN  /\ doc.cancelledAt = now
           /\ doc.cancelledBy = a
           /\ doc.reason = IF reason # NoReason THEN reason ELSE DefaultReason


\* What the handler of request r would write as one atomic read-validate-write
\* at the instant of its save.
AtomicWrite(r) ==
  CASE r.op = "cancel" -> CancelBookingWrite(r.actor, r.id)
    [] r.op = "confirm" -> ConfirmBookingWrite(r.actor, r.id)
    [] r.op = "checkIn" -> CheckInBookingWrite(r.actor, r.id)
    [] r.op = "checkOut" -> CheckOutBookingWrite(r.actor, r.id)
    [] OTHER -> bookings

\* C25: under every interleaving of concurrent transition requests on one
\* booking, each request behaves as one atomic read-validate-write: its save
\* leaves what the handler run in one piece at that instant would leave, so a
\* second concurrent cancel is refused and a check-in cannot overwrite a stored
\* cancelled.
C25_AtomicTransitions ==
  [][\A i \in 1..MaxInflight :
       (SaveRequest(i) /\ inflight[i].op \in TransitionOps)
       => bookings' = AtomicWrite(inflight[i])]_vars

\* Stored booking b is the document request r created; later requests may have
\* changed its status since.
PersistedAs(r, b) ==
  /\ b > r.seen
  /\ bookings[b].user = r.doc.user
  /\ bookings[b].property = r.doc.property
  /\ bookings[b].checkIn = r.doc.checkIn
  /\ bookings[b].checkOut = r.doc.checkOut

\* C26: two concurrent createBooking requests for overlapping dates on one
\* property that both passed the availability query before either saved are
\* both persisted.
C26_ConcurrentCreatesBothPersist ==
  \A i \in DOMAIN inflight, j \in DOMAIN inflight :
    ( /\ i # j
      /\ inflight[i].op = "create" /\ inflight[j].op = "create"
      /\ inflight[i].saved /\ inflight[j].saved
      /\ inflight[i].seen = inflight[j].seen
      /\ inflight[i].doc.property = inflight[j].doc.property
      /\ HalfOpenOverlap(inflight[i].doc.checkIn, inflight[i].doc.checkOut,
                         inflight[j].doc.checkIn, inflight[j].doc.checkOut) )
    => /\ Len(bookings) >= inflight[i].seen + 2
       /\ \E b \in Stored, c \in Stored :
            /\ b # c
            /\ PersistedAs(inflight[i], b)
            /\ PersistedAs(inflight[j], c)

C26_Witness ==
  /\ Len(inflight) = 2
  /\ inflight[1].op = "create" /\ inflight[2].op = "create"
  /\ inflight[1].saved /\ inflight[2].saved
  /\ inflight[1].seen = 0 /\ inflight[2].seen = 0
  /\ inflight[1].doc.property = inflight[2].doc.property
  /\ HalfOpenOverlap(inflight[1].doc.checkIn, inflight[1].doc.checkOut,
                     inflight[2].doc.checkIn, inflight[2].doc.checkOut)
  /\ Len(bookings) = 2
  /\ bookings[1].property = bookings[2].property
  /\ HalfOpenOverlap(bookings[1].checkIn, bookings[1].checkOut,
                     bookings[2].checkIn, bookings[2].checkOut)



\* C27: the availability check is a pure read: for every input, a missing
\* property and missing dates included, it changes no booking and no property.
C27_CheckAvailabilityPureRead ==
  [][\A p \in PropertyIds \cup {MissingProperty},
        rIn \in DateChoices, rOut \in DateChoices, datesGiven \in BOOLEAN :
       CheckAvailability(p, rIn, rOut, datesGiven)
       => UNCHANGED <<bookings, properties>>]_vars

C27_Witness ==
  /\ resp.message = "Check-in and check-out dates are required"
  /\ \E b \in Stored : Active(b)
  /\ \E p \in PropertyIds : ~properties[p].isAvailable


\* C28: a booking is created pending, becomes checked_in only from confirmed and
\* completed only from checked_in, and never returns to pending, so a completed
\* booking was checked_in earlier, confirmed before that and pending before
\* that: the four statuses are first reached in this order and none is skipped.
C28_StatusOrder ==
  [][\A b \in DOMAIN bookings' :
       IF b \notin Stored
         THEN bookings'[b].status = "pending"
         ELSE /\ (bookings'[b].status = "completed" /\ bookings[b].status # "completed")
                 => bookings[b].status = "checked_in"
              /\ (bookings'[b].status = "checked_in" /\ bookings[b].status # "checked_in")
                 => bookings[b].status = "confirmed"
              /\ bookings'[b].status = "pending" => bookings[b].status = "pending"]_vars

C28_Witness ==
  \E b \in Stored :
    /\ bookings[b].status = "completed"
    /\ bookings[b].payment = "paid"
    /\ resp.message = "Check-out successful"



\* C29: resetBookings by an admin leaves exactly the min(50, n) most recently
\* created bookings, whatever their statuses, and deletes the others; by anyone
\* else it answers access denied and deletes nothing; no other step removes a
\* booking.
C29_ResetKeepsLatest ==
  [][/\ \A a \in Actors :
          ResetBookings(a)
          => IF Role(a) = "admin"
               THEN /\ Len(bookings') = Min(KeepLatest, Len(bookings))
                    /\ \A i \in 1..Len(bookings') :
                         bookings'[i] = bookings[Len(bookings) - Len(bookings') + i]
               ELSE /\ resp'.status = 403
                    /\ resp'.message = "Access denied"
                    /\ bookings' = bookings
     /\ ResetBookings("admin")
        \/ /\ Len(bookings') >= Len(bookings)
           /\ \A b \in Stored :
                /\ bookings'[b].user = bookings[b].user
                /\ bookings'[b].property = bookings[b].property
                /\ bookings'[b].checkIn = bookings[b].checkIn]_vars

C29_Witness ==
  /\ resp.message = "Data cleanup successful"
  /\ resp.data.deletedCount = MaxBookings
  /\ Len(bookings) = KeepLatest
  /\ \E b \in Stored : bookings[b].status = "completed"
  /\ \E b \in Stored : bookings[b].status = "pending"



\* C30: every stored booking has a status of the schema's enum; the webhook's
\* payment_failed and the refund's refunded are never stored.
C30_StoredStatusInEnum ==
  \A b \in Stored :
    /\ bookings[b].status \in StatusEnum
    /\ bookings[b].status \notin {"payment_failed", "refunded"}

C30_Witness ==
  /\ resp.message = "received"
  /\ \E b \in Stored : bookings[b].status = "cancelled"
  /\ \E b \in Stored : bookings[b].status = "checked_in"


====
